---- MODULE Spec2Model ----
(***************************************************************************)
(* dbt-webhook: configuration load (dbt_webhook/config.py), diagnostics    *)
(* (dbt_webhook/events.py) and the hook dispatcher with its correlation    *)
(* store.                                                                  *)
(*                                                                         *)
(* Text is modelled as a sequence of atoms.  An atom is either one of the  *)
(* two brace characters "{" and "}" or a piece of brace-free text; no atom *)
(* is the concatenation of other atoms, so a replacement field holding     *)
(* several atoms names a variable that no env_vars list can supply.        *)
(* Header templates hold no "!", ":", "." or "[" inside a field.           *)
(***************************************************************************)
EXTENDS Naturals, Sequences, FiniteSets, TLC

VARIABLES
    env,            \* os.environ restricted to the variables hooks may name
    overridePath,   \* value of the config-path override variable, "" if unset
    fs,             \* path -> document found there (kind "missing" if none)
    commandType,    \* command type of this invocation
    units,          \* unique ids of the units this invocation executes
    net,            \* replies the HTTP transport can give in this invocation
    pc,             \* "init" before the load, "loaded" after it
    config,         \* the cached configuration, NoConfig when the load failed
    loadResult,     \* how from_yaml ended: "pending", "config", "none", "raised"
    notices,        \* notes fired on the event manager, in order
    events,         \* lifecycle events delivered by the host, in order
    calls,          \* HTTP calls issued, in order
    store,          \* correlation store: key -> record
    escaped,        \* an exception left a callback and reached the host
    buildOk,        \* whether the host's own build succeeds
    inflight,       \* per unit: the call its worker thread waits on, None if idle
    result          \* success the host reports: "pending", "success", "failure"

vars == <<env, overridePath, fs, commandType, units, net, pc, config, loadResult,
          notices, events, calls, store, escaped, buildOk, inflight, result>>

----------------------------------------------------------------------------
(* Bounds *)

\* longest header template enumerated atom by atom
MaxTemplateLen == 3

----------------------------------------------------------------------------
(* Generic helpers *)

Range(s) == {s[i] : i \in 1..Len(s)}

RECURSIVE SeqsUpTo(_, _)
SeqsUpTo(S, n) ==
    IF n = 0 THEN {<<>>}
    ELSE LET shorter == SeqsUpTo(S, n - 1)
         IN  shorter \cup {Append(s, x) : s \in {t \in shorter : Len(t) = n - 1}, x \in S}

----------------------------------------------------------------------------
(* events.py.  The backquote of the message texts is written as an         *)
(* apostrophe: the module's strings cannot hold a backquote.                 *)

MESSAGE_PREFIX == "[dbtWebhook]"

\* a note that carries the bare message
prefixed_message_NoTag(message) == message

\* BaseMessage.prefixed_message: f"{MESSAGE_PREFIX}: {self.message()}"
prefixed_message(message) == <<MESSAGE_PREFIX, ": ">> \o message

\* BaseMessage.to_note fired at a level by debug / info / warn / error
debug(message) == [level |-> "debug", msg |-> prefixed_message(message)]
warn(message) == [level |-> "warn", msg |-> prefixed_message(message)]
info(message) == [level |-> "info", msg |-> prefixed_message(message)]
error(message) == [level |-> "error", msg |-> prefixed_message(message)]

PluginInit == <<"plugin initialization">>

PluginConfigNotFound ==
    <<"plugin config not found, expected config passed as 'dbt_webhook_CONFIG' env variable or 'dbt_webhook.yml' file located in working directory.">>

PluginConfigFoundFile(file_path) == <<"read config from '", file_path, "' file">>

EnvVariableValueNotPassed(env_var) ==
    <<"config expects environment variable ", env_var, " which was not passed, will be used ''.">>

HeaderValueRenderingError(header_name, header_value) ==
    <<"error rendering '", header_name, "' header value: '">> \o header_value \o <<"'.">>

ConfigReadError(err) == <<"Error getting dbt webhook config: ", err>>

WebHookCallError_NoCause(err) == <<"error calling webhook: ">>

WebHookCallError(err) == <<"error calling webhook: ", err>>

----------------------------------------------------------------------------
(* str.format with keyword arguments only, as _substitute_env_vars calls it *)

FormatError == [ok |-> FALSE, out |-> <<>>]

\* index of the first brace at or after position i, 0 if there is none
RECURSIVE NextBrace(_, _)
NextBrace(t, i) ==
    IF i > Len(t) THEN 0
    ELSE IF t[i] \in {"{", "}"} THEN i
    ELSE NextBrace(t, i + 1)

\* the value a replacement field named by the atoms 'name' gets from kwargs
FieldValue(name, kwargs) ==
    IF Len(name) = 1 /\ name[1] \in DOMAIN kwargs
    THEN [ok |-> TRUE, out |-> kwargs[name[1]]]
    ELSE FormatError    \* IndexError for "{}", KeyError for an unknown name

RECURSIVE FormatFrom(_, _, _)
FormatFrom(t, i, kwargs) ==
    IF i > Len(t) THEN [ok |-> TRUE, out |-> <<>>]
    ELSE IF t[i] = "{" THEN
        IF i + 1 <= Len(t) /\ t[i + 1] = "{"
        THEN LET rest == FormatFrom(t, i + 2, kwargs)       \* "{{" is a literal "{"
             IN  IF rest.ok THEN [ok |-> TRUE, out |-> <<"{">> \o rest.out] ELSE FormatError
        ELSE LET j == NextBrace(t, i + 1)
             IN  IF j = 0 \/ t[j] = "{" THEN FormatError    \* no "}" closes the field
                 ELSE LET val == FieldValue(SubSeq(t, i + 1, j - 1), kwargs)
                          rest == FormatFrom(t, j + 1, kwargs)
                      IN  IF val.ok /\ rest.ok
                          THEN [ok |-> TRUE, out |-> val.out \o rest.out]
                          ELSE FormatError
    ELSE IF t[i] = "}" THEN
        IF i + 1 <= Len(t) /\ t[i + 1] = "}"
        THEN LET rest == FormatFrom(t, i + 2, kwargs)       \* "}}" is a literal "}"
             IN  IF rest.ok THEN [ok |-> TRUE, out |-> <<"}">> \o rest.out] ELSE FormatError
        ELSE FormatError                                    \* single "}"
    ELSE LET rest == FormatFrom(t, i + 1, kwargs)
         IN  IF rest.ok THEN [ok |-> TRUE, out |-> <<t[i]>> \o rest.out] ELSE FormatError

Format(t, kwargs) == FormatFrom(t, 1, kwargs)

----------------------------------------------------------------------------
(* config.py: the configuration model *)

NoneValue == [none |-> TRUE]

Get(doc, key, default) == IF key \in DOMAIN doc THEN doc[key] ELSE default

WEBHOOK_DATA == "{{ data | tojson }}"

Default_command_types_WithCompile == <<"run", "build", "compile">>

Default_command_types == <<"run", "build">>

Default_webhook_url_Set == "a/b/c"

Default_webhook_url == ""

Default_webhok_method_Put == "PUT"

Default_webhok_method == "POST"

Default_headers ==
    << [name |-> "Authorization",
        value |-> <<"bearer ", "{", "DBT_WEBHOOK_AUTH_TOKEN", "}">>],
       [name |-> "Content-Type", value |-> <<"application/json">>] >>

Default_env_vars == <<"DBT_WEBHOOK_AUTH_TOKEN">>

Default_node_types == <<"model">>

\* baseHookConfig(**doc): a key that names a field overrides the field's
\* default, any other key of the document is ignored
baseHookConfig(doc) ==
    [command_types |-> Get(doc, "command_types", Default_command_types),
     webhook_url |-> Get(doc, "webhook_url", Default_webhook_url),
     webhok_method |-> Get(doc, "webhok_method", Default_webhok_method),
     webhook_request_data_template |->
         Get(doc, "webhook_request_data_template", WEBHOOK_DATA),
     headers |-> Get(doc, "headers", Default_headers),
     env_vars |-> Get(doc, "env_vars", Default_env_vars)]

commandHookConfig(doc) == baseHookConfig(doc)

modelHookConfig(doc) ==
    LET base == baseHookConfig(doc)
    IN  [command_types |-> base.command_types,
         webhook_url |-> base.webhook_url,
         webhok_method |-> base.webhok_method,
         webhook_request_data_template |-> base.webhook_request_data_template,
         headers |-> base.headers,
         env_vars |-> base.env_vars,
         node_types |-> Get(doc, "node_types", Default_node_types)]

HookNames == <<"command_start_hook", "command_end_hook", "model_start_hook", "model_end_hook">>

EmptyDoc == [k \in {} |-> NoneValue]

\* one hook field of dbtWebhookConfig(**data): the default instance when the
\* key is omitted, None when the document gives null, the parsed hook otherwise
HookField(data, hookName) ==
    LET parse(doc) == IF hookName \in {"model_start_hook", "model_end_hook"}
                      THEN modelHookConfig(doc)
                      ELSE commandHookConfig(doc)
    IN  IF hookName \notin DOMAIN data THEN parse(EmptyDoc)
        ELSE IF data[hookName] = NoneValue THEN NoneValue
        ELSE parse(data[hookName])

dbtWebhookConfig(data) == [h \in Range(HookNames) |-> HookField(data, h)]

----------------------------------------------------------------------------
(* config.py: _substitute_env_vars and from_yaml *)

\* lines 73-76: one warning per listed variable that os.environ lacks
EnvWarnings(env_vars, environ) ==
    LET missing == SelectSeq(env_vars, LAMBDA v : v \notin DOMAIN environ)
    IN  [i \in 1..Len(missing) |-> warn(EnvVariableValueNotPassed(missing[i]))]

EnvVarValues_NoDefault(env_vars, environ) ==
    [v \in Range(env_vars) |-> IF v \in DOMAIN environ THEN environ[v] ELSE <<"None">>]

\* lines 72-76: env_var_values[env_var] = os.getenv(env_var, "")
EnvVarValues(env_vars, environ) ==
    [v \in Range(env_vars) |-> IF v \in DOMAIN environ THEN environ[v] ELSE <<>>]

\* lines 77-83, from header i on.  st.bound says whether the local
\* rendered_header_value has been assigned; reading it unassigned raises
\* UnboundLocalError out of the loop.
RECURSIVE RenderHeaders(_, _, _, _)
RenderHeaders(headers, i, kwargs, st) ==
    IF i > Len(headers) THEN st
    ELSE LET h == headers[i]
             r == Format(h.value, kwargs)
         IN  IF r.ok
             THEN RenderHeaders(headers, i + 1, kwargs,
                      [st EXCEPT !.bound = TRUE, !.rendered = r.out,
                                 !.headers_ext = Append(@, [name |-> h.name, value |-> r.out])])
             ELSE LET failed == [st EXCEPT !.success = FALSE,
                                    !.notices = Append(@, error(HeaderValueRenderingError(h.name, h.value)))]
                  IN  IF ~st.bound
                      THEN [failed EXCEPT !.raised = TRUE]
                      ELSE RenderHeaders(headers, i + 1, kwargs,
                               [failed EXCEPT !.headers_ext =
                                    Append(@, [name |-> h.name, value |-> st.rendered])])

\* _substitute_env_vars that formats the body template as it formats a header:
\* the doubled braces of the default template come out single
substitute_env_vars_FormatsBodyTemplate(node_config, environ) ==
    IF node_config = NoneValue \/ node_config.env_vars = <<>> \/ node_config.headers = <<>>
    THEN [raised |-> FALSE, success |-> TRUE, node_config |-> node_config, notices |-> <<>>]
    ELSE LET st == RenderHeaders(node_config.headers, 1,
                       EnvVarValues(node_config.env_vars, environ),
                       [success |-> TRUE, raised |-> FALSE, bound |-> FALSE,
                        rendered |-> <<>>, headers_ext |-> <<>>,
                        notices |-> EnvWarnings(node_config.env_vars, environ)])
         IN  [raised |-> st.raised, success |-> st.success,
              node_config |->
                  IF st.raised THEN node_config
                  ELSE [node_config EXCEPT
                           !.headers = st.headers_ext,
                           !.webhook_request_data_template =
                               IF @ = WEBHOOK_DATA THEN "{ data | tojson }" ELSE @],
              notices |-> st.notices]

\* _substitute_env_vars that renders the headers but leaves the templates in place
substitute_env_vars_KeepsTemplates(node_config, environ) ==
    IF node_config = NoneValue \/ node_config.env_vars = <<>> \/ node_config.headers = <<>>
    THEN [raised |-> FALSE, success |-> TRUE, node_config |-> node_config, notices |-> <<>>]
    ELSE LET st == RenderHeaders(node_config.headers, 1,
                       EnvVarValues(node_config.env_vars, environ),
                       [success |-> TRUE, raised |-> FALSE, bound |-> FALSE,
                        rendered |-> <<>>, headers_ext |-> <<>>,
                        notices |-> EnvWarnings(node_config.env_vars, environ)])
         IN  [raised |-> st.raised, success |-> st.success,
              node_config |-> node_config, notices |-> st.notices]

\* _substitute_env_vars(node_config): raised when it ends by an exception,
\* otherwise success is its return value and node_config the hook as it left it
substitute_env_vars(node_config, environ) ==
    IF node_config = NoneValue \/ node_config.env_vars = <<>> \/ node_config.headers = <<>>
    THEN [raised |-> FALSE, success |-> TRUE, node_config |-> node_config, notices |-> <<>>]
    ELSE LET st == RenderHeaders(node_config.headers, 1,
                       EnvVarValues(node_config.env_vars, environ),
                       [success |-> TRUE, raised |-> FALSE, bound |-> FALSE,
                        rendered |-> <<>>, headers_ext |-> <<>>,
                        notices |-> EnvWarnings(node_config.env_vars, environ)])
         IN  [raised |-> st.raised, success |-> st.success,
              node_config |-> IF st.raised THEN node_config
                              ELSE [node_config EXCEPT !.headers = st.headers_ext],
              notices |-> st.notices]

\* lines 55-64, from the i-th hook on
RECURSIVE SubstituteFrom(_, _, _, _)
SubstituteFrom(cfg, i, environ, emitted) ==
    IF i > Len(HookNames)
    THEN [result |-> "config", config |-> cfg, notices |-> emitted, err |-> ""]
    ELSE LET r == substitute_env_vars(cfg[HookNames[i]], environ)
         IN  IF r.raised
             THEN [result |-> "raised", config |-> NoneValue,
                   notices |-> emitted \o r.notices, err |-> "UnboundLocalError"]
             ELSE IF ~r.success
             THEN [result |-> "none", config |-> NoneValue,
                   notices |-> emitted \o r.notices, err |-> ""]
             ELSE SubstituteFrom([cfg EXCEPT ![HookNames[i]] = r.node_config],
                                 i + 1, environ, emitted \o r.notices)

MissingFile == [kind |-> "missing"]

\* os.path.exists(config_path)
Exists(filesystem, config_path) ==
    config_path \in DOMAIN filesystem /\ filesystem[config_path].kind # "missing"

from_yaml_InvalidFallsBackToDefaults(filesystem, config_path, environ) ==
    IF Exists(filesystem, config_path) /\ filesystem[config_path].kind = "mapping"
    THEN SubstituteFrom(dbtWebhookConfig(filesystem[config_path].data), 1, environ,
                        <<info(PluginConfigFoundFile(config_path))>>)
    ELSE SubstituteFrom(dbtWebhookConfig(EmptyDoc), 1, environ,
                        <<warn(PluginConfigNotFound)>>)

\* dbtWebhookConfig.from_yaml(config_path): result "config" with the returned
\* configuration, "none" when it returns None, "raised" with the exception
from_yaml(filesystem, config_path, environ) ==
    IF Exists(filesystem, config_path)
    THEN LET doc == filesystem[config_path]
             found == <<info(PluginConfigFoundFile(config_path))>>
         IN  IF doc.kind = "unparseable"      \* yaml.safe_load raises
             THEN [result |-> "raised", config |-> NoneValue, notices |-> found,
                   err |-> "YAMLError"]
             ELSE IF doc.kind = "notmapping"  \* dbtWebhookConfig(**data), data no mapping
             THEN [result |-> "raised", config |-> NoneValue, notices |-> found,
                   err |-> "TypeError"]
             ELSE IF doc.kind = "badshape"    \* a value of the wrong type for its field
             THEN [result |-> "raised", config |-> NoneValue, notices |-> found,
                   err |-> "ValidationError"]
             ELSE SubstituteFrom(dbtWebhookConfig(doc.data), 1, environ, found)
    ELSE SubstituteFrom(dbtWebhookConfig(EmptyDoc), 1, environ,
                        <<warn(PluginConfigNotFound)>>)

----------------------------------------------------------------------------
(* The plugin: configuration resolution, dispatch, correlation store *)

DEFAULT_CONIG_FILE_NAME == "dbt_webhook.yml"

CustomPath == "custom_config.yml"

InvocationId == "inv1"

\* the path handed to from_yaml: the override if given, else the default
\* file name if that file exists, else no path
GetConfigFile(override, filesystem) ==
    IF override # "" THEN override
    ELSE IF Exists(filesystem, DEFAULT_CONIG_FILE_NAME) THEN DEFAULT_CONIG_FILE_NAME
    ELSE ""

HookOf(eventType) ==
    CASE eventType = "command_start" -> "command_start_hook"
      [] eventType = "command_end" -> "command_end_hook"
      [] eventType = "model_start" -> "model_start_hook"
      [] eventType = "model_end" -> "model_end_hook"

IsStart(eventType) == eventType \in {"command_start", "model_start"}

\* the hook configuration of an event type, None when the load gave none
ResolveHook(cfg, eventType) ==
    IF cfg = NoneValue THEN NoneValue ELSE cfg[HookOf(eventType)]

\* step 1 of dispatch: the hook is configured and applies to the command type
Applies(hook, cmdType) ==
    /\ hook # NoneValue
    /\ hook.webhook_url # ""
    /\ cmdType \in Range(hook.command_types)

\* CorrelationKey: the invocation for command-level events, the invocation
\* and the unit for model-level events
CorrelationKey(eventType, unit) ==
    IF eventType \in {"command_start", "command_end"}
    THEN <<InvocationId>>
    ELSE <<InvocationId, unit>>

\* the render context of one call and the template it is rendered with
RenderBody(hook, eventType, unit, success) ==
    [template |-> hook.webhook_request_data_template,
     invocation_id |-> InvocationId,
     command_type |-> commandType,
     unique_id |-> unit,
     success |-> success]

Replies == {"ok_data", "ok_empty", "unparsable", "status_500", "transport"}

ReplyOk(reply) == reply \in {"ok_data", "ok_empty"}

\* the underlying cause a failed call is reported with
Cause(reply) ==
    IF reply = "transport" THEN "ConnectionError"
    ELSE IF reply = "status_500" THEN "HTTPError 500"
    ELSE "JSONDecodeError"

\* the call an event issues, with the reply it got: a start-class event and an end-class event
\* without a correlation record use the hook's method, URL and headers; an
\* end-class event with a record is a PUT to the record's URL and headers
BuildCall(hook, eventType, unit, success, reply) ==
    LET key == CorrelationKey(eventType, unit)
        correlated == ~IsStart(eventType) /\ key \in DOMAIN store
    IN  [event |-> eventType,
         unit |-> unit,
         method |-> IF correlated THEN "PUT" ELSE hook.webhok_method,
         url |-> IF correlated THEN store[key].url ELSE hook.webhook_url,
         headers |-> IF correlated THEN store[key].headers ELSE hook.headers,
         body |-> RenderBody(hook, eventType, unit, success),
         record |-> IF correlated THEN store[key] ELSE NoneValue,
         reply |-> reply]

\* the response body of a successful call: the n-th call of the invocation
\* with data creates the server's n-th resource, an empty body names none
ResponseData(reply, n) == [body |-> reply, id |-> IF reply = "ok_data" THEN n ELSE 0]

\* the CorrelationRecord a successful start call leaves
Record(call, n) ==
    [data |-> ResponseData(call.reply, n), url |-> call.url, headers |-> call.headers]

\* put that writes the record into the view taken when the dispatch began
Put_IntoSnapshot(current, snapshot, key, record) ==
    [k \in DOMAIN snapshot \cup {key} |-> IF k = key THEN record ELSE snapshot[k]]

\* Correlation Store put(key, record) by a dispatch that saw the store as
\* 'snapshot' when it began: only the key is written, into the current store
Put(current, snapshot, key, record) ==
    [k \in DOMAIN current \cup {key} |-> IF k = key THEN record ELSE current[k]]

\* steps 3-4 of dispatch once the reply is in: the call is recorded, a failure
\* is reported, a successful start call stores its record; nothing is raised
Complete(call, snapshot) ==
    /\ calls' = Append(calls, call)
    /\ escaped' = escaped      \* a failure is caught and reported
    /\ IF ReplyOk(call.reply)
       THEN /\ notices' = notices
            /\ IF IsStart(call.event)
               THEN store' = Put(store, snapshot, CorrelationKey(call.event, call.unit),
                                 Record(call, Len(calls) + 1))
               ELSE store' = store
       ELSE /\ notices' = Append(notices, error(WebHookCallError(Cause(call.reply))))
            /\ store' = store

\* dispatch that reattempts a failed call once
Dispatch_ReattemptsOnce(eventType, unit, success) ==
    LET hook == ResolveHook(config, eventType)
    IN  IF ~Applies(hook, commandType)
        THEN UNCHANGED <<calls, store, notices, escaped>>
        ELSE \E reply \in net :
               LET call == BuildCall(hook, eventType, unit, success, reply)
               IN  IF ReplyOk(reply)
                   THEN Complete(call, store)
                   ELSE /\ calls' = Append(Append(calls, call), call)
                        /\ notices' = Append(notices, error(WebHookCallError(Cause(reply))))
                        /\ UNCHANGED <<store, escaped>>

\* dispatch(eventType, context): never raises to the caller
Dispatch(eventType, unit, success) ==
    LET hook == ResolveHook(config, eventType)
    IN  IF ~Applies(hook, commandType)
        THEN UNCHANGED <<calls, store, notices, escaped>>
        ELSE \E reply \in net :
               Complete(BuildCall(hook, eventType, unit, success, reply), store)

Delivered(eventType, unit) ==
    \E i \in 1..Len(events) : events[i] = [type |-> eventType, unit |-> unit]

Deliver(eventType, unit) ==
    events' = Append(events, [type |-> eventType, unit |-> unit])

----------------------------------------------------------------------------
(* Actions *)

\* the lazy, once-only load: resolve the path, read it, keep the outcome
Load ==
    /\ pc = "init"
    /\ LET r == from_yaml(fs, GetConfigFile(overridePath, fs), env)
       IN  /\ loadResult' = r.result
           /\ config' = r.config
           /\ notices' = notices \o r.notices \o
                  (IF r.result = "raised" THEN <<error(ConfigReadError(r.err))>> ELSE <<>>)
    /\ pc' = "loaded"
    /\ UNCHANGED <<env, overridePath, fs, commandType, units, net, events, calls,
                   store, escaped, buildOk, inflight, result>>

CommandStart ==
    /\ pc = "loaded"
    /\ events = <<>>
    /\ Deliver("command_start", "")
    /\ Dispatch("command_start", "", "None")
    /\ UNCHANGED <<env, overridePath, fs, commandType, units, net, pc, config,
                   loadResult, buildOk, inflight, result>>

ModelStart(u) ==
    /\ pc = "loaded"
    /\ Delivered("command_start", "")
    /\ ~Delivered("model_start", u)
    /\ Deliver("model_start", u)
    /\ Dispatch("model_start", u, "None")
    /\ UNCHANGED <<env, overridePath, fs, commandType, units, net, pc, config,
                   loadResult, buildOk, inflight, result>>

ModelEnd(u) ==
    /\ pc = "loaded"
    /\ Delivered("model_start", u)
    /\ ~Delivered("model_end", u)
    /\ inflight[u] = NoneValue
    /\ Deliver("model_end", u)
    /\ Dispatch("model_end", u, "True")
    /\ UNCHANGED <<env, overridePath, fs, commandType, units, net, pc, config,
                   loadResult, buildOk, inflight, result>>

CommandEnd ==
    /\ pc = "loaded"
    /\ \A u \in units : Delivered("model_end", u) /\ inflight[u] = NoneValue
    /\ Delivered("command_start", "")
    /\ ~Delivered("command_end", "")
    /\ Deliver("command_end", "")
    /\ Dispatch("command_end", "", IF buildOk THEN "True" ELSE "False")
    /\ result' = IF buildOk /\ ~escaped' THEN "success" ELSE "failure"
    /\ UNCHANGED <<env, overridePath, fs, commandType, units, net, pc, config,
                   loadResult, buildOk, inflight>>

\* a worker thread enters dispatch for a unit's event: the event is delivered,
\* the record under the key is looked up and the blocking call is issued
ThreadCalls(eventType, u, success) ==
    LET hook == ResolveHook(config, eventType)
    IN  /\ pc = "loaded"
        /\ inflight[u] = NoneValue
        /\ Deliver(eventType, u)
        /\ inflight' = IF ~Applies(hook, commandType) THEN inflight
                       ELSE [inflight EXCEPT ![u] =
                                [call |-> BuildCall(hook, eventType, u, success, "pending"),
                                 snapshot |-> store]]
        /\ UNCHANGED <<env, overridePath, fs, commandType, units, net, pc, config,
                       loadResult, notices, calls, store, escaped, buildOk, result>>

ModelStartCall(u) ==
    /\ Delivered("command_start", "")
    /\ ~Delivered("model_start", u)
    /\ ThreadCalls("model_start", u, "None")

ModelEndCall(u) ==
    /\ Delivered("model_start", u)
    /\ ~Delivered("model_end", u)
    /\ ThreadCalls("model_end", u, "True")

\* the blocking call of a worker thread returns and its dispatch finishes
CallReturns(u) ==
    /\ inflight[u] # NoneValue
    /\ \E reply \in net :
          Complete([inflight[u].call EXCEPT !.reply = reply], inflight[u].snapshot)
    /\ inflight' = [inflight EXCEPT ![u] = NoneValue]
    /\ UNCHANGED <<env, overridePath, fs, commandType, units, net, pc, config,
                   loadResult, events, buildOk, result>>

Next ==
    \/ Load
    \/ CommandStart
    \/ \E u \in units : ModelStart(u)
    \/ \E u \in units : ModelEnd(u)
    \/ CommandEnd

\* the same invocation with the units' dispatches on worker threads: command
\* events come from the control thread, a unit's call blocks only its thread
NextThreads ==
    \/ Load
    \/ CommandStart
    \/ \E u \in units : ModelStartCall(u)
    \/ \E u \in units : ModelEndCall(u)
    \/ \E u \in units : CallReturns(u)
    \/ CommandEnd

----------------------------------------------------------------------------
(* Initial states: the inputs of one invocation *)

URL == "a/b/c"

URL2 == "d/e/f"

Units == {"u1", "u2"}

HookSet == Range(HookNames)

\* atoms header templates are enumerated over
Atoms == {"b", "B", "{", "}", "X"}

Templates == SeqsUpTo(Atoms, MaxTemplateLen)

Unset == <<"<unset>">>

\* os.environ with each variable at the given value, absent when Unset
Environ(x, y, token) ==
    LET given == [X |-> x, Y |-> y, DBT_WEBHOOK_AUTH_TOKEN |-> token]
    IN  [v \in {n \in DOMAIN given : given[n] # Unset} |-> given[v]]

Mapping(data) == [kind |-> "mapping", data |-> data]

\* the working directory holds the document under the default name, or the
\* override variable names the file that holds it
Placed(doc, where) ==
    IF where = "default"
    THEN [override |-> "",
          fs |-> (DEFAULT_CONIG_FILE_NAME :> doc) @@ (CustomPath :> MissingFile)]
    ELSE [override |-> CustomPath,
          fs |-> (DEFAULT_CONIG_FILE_NAME :> MissingFile) @@ (CustomPath :> doc)]

Header(name, value) == [name |-> name, value |-> value]

StaticHeader == Header("Content-Type", <<"application/json">>)

\* one hook with one enumerated header template
TemplateDocs ==
    {Mapping(h :> [webhook_url |-> URL,
                   headers |-> <<Header("H", t), StaticHeader>>,
                   env_vars |-> ev]) :
        h \in HookSet, t \in Templates, ev \in {<<"X">>, <<"Y", "X">>}}

\* header mappings that render, fail at the first header, fail later, are empty
HeaderChoices ==
    { <<>>,
      <<Header("H1", <<"{", "X", "}">>)>>,
      <<Header("H1", <<"{", "Y", "}">>)>>,
      <<Header("H1", <<"b">>), Header("H2", <<"{", "Y", "}">>)>>,
      <<Header("H1", <<"{", "Y", "}">>), Header("H2", <<"b">>)>>,
      <<Header("H1", <<"B", "{", "{", "{", "X", "}", "}", "}">>), Header("H2", <<"{", "Y", "}">>),
        Header("H3", <<"{", "X", "}">>)>> }

EnvVarChoices == {<<>>, <<"X">>, <<"X", "Y">>}

HeaderHookDocs ==
    {[webhook_url |-> URL, headers |-> hs, env_vars |-> ev] :
        hs \in HeaderChoices, ev \in EnvVarChoices}

\* two hooks, each with its own headers and env_vars
TwoHookDocs ==
    {Mapping((HookNames[i] :> d1) @@ (HookNames[j] :> d2)) :
        i \in 1..4, j \in 1..4, d1 \in HeaderHookDocs, d2 \in HeaderHookDocs}

InvalidDocs == {MissingFile, [kind |-> "unparseable"], [kind |-> "notmapping"],
                [kind |-> "badshape"]}

\* what a file may say about a hook whose dispatch is followed
DispatchHookDocs ==
    { NoneValue,
      [webhook_url |-> URL, headers |-> <<StaticHeader>>],
      [webhook_url |-> URL2],
      [webhook_url |-> URL, webhok_method |-> "PUT"],
      [webhook_url |-> URL, webhook_method |-> "PUT"],
      [webhook_url |-> URL, command_types |-> <<"compile">>],
      [webhook_url |-> ""],
      [command_types |-> <<"run", "compile">>] }

\* the documents that say something about the hooks of one level
LevelDocs(startHook, endHook) ==
    {Mapping(startHook :> d) : d \in DispatchHookDocs}
    \cup {Mapping(endHook :> d) : d \in DispatchHookDocs}
    \cup {Mapping((startHook :> d1) @@ (endHook :> d2)) :
            d1 \in DispatchHookDocs, d2 \in DispatchHookDocs}

AllHooksDoc ==
    Mapping([h \in HookSet |-> [webhook_url |-> URL, headers |-> <<StaticHeader>>]])

\* the state of the process when the host initialises the plugin
StartAt(override, filesystem, environ, cmdType, us, replies, ok) ==
    /\ overridePath = override
    /\ fs = filesystem
    /\ env = environ
    /\ commandType = cmdType
    /\ units = us
    /\ net = replies
    /\ buildOk = ok
    /\ pc = "init"
    /\ config = NoneValue
    /\ loadResult = "pending"
    /\ notices = <<debug(PluginInit)>>
    /\ events = <<>>
    /\ calls = <<>>
    /\ store = [k \in {} |-> NoneValue]
    /\ escaped = FALSE
    /\ inflight = [u \in us |-> NoneValue]
    /\ result = "pending"

Start(doc, where, environ, cmdType, us, replies, ok) ==
    StartAt(Placed(doc, where).override, Placed(doc, where).fs, environ, cmdType, us,
            replies, ok)

\* invocations that differ in what the file says about one level's hooks and
\* in every reply the transport can give
InitLevels ==
    \E doc \in LevelDocs("command_start_hook", "command_end_hook")
                 \cup LevelDocs("model_start_hook", "model_end_hook"),
       cmdType \in {"run", "compile"}, ok \in BOOLEAN :
        Start(doc, "default", Environ(Unset, Unset, <<"tok">>), cmdType, {"u1"}, Replies, ok)

\* invocations with all four hooks configured and two units interleaved
InitUnits ==
    \E where \in {"default", "override"} :
        Start(AllHooksDoc, where, Environ(Unset, Unset, <<"tok">>), "run", Units, Replies, TRUE)

Init == InitLevels \/ InitUnits

Spec == Init /\ [][Next]_vars

\* invocations that differ in the header templates, env_vars and environment
InitTemplates ==
    \E doc \in TemplateDocs, x \in {Unset, <<>>, <<"xyz">>, <<"QWE">>} :
        Start(doc, "default", Environ(x, <<"y">>, <<"tok">>), "run", {"u1"}, {"ok_data"}, TRUE)

InitTwoHooks ==
    \E doc \in TwoHookDocs, x \in {Unset, <<"xyz">>}, y \in {Unset, <<"QWE">>},
       token \in {Unset, <<"tok">>} :
        Start(doc, "default", Environ(x, y, token), "run", {"u1"}, {"ok_data"}, TRUE)

InitInvalid ==
    \E doc \in InvalidDocs, where \in {"default", "override"},
       token \in {Unset, <<"tok">>}, cmdType \in {"run", "compile"} :
        Start(doc, where, Environ(Unset, Unset, token), cmdType, {"u1"}, {"ok_data"}, TRUE)

\* a document that configures the command-start hook with the given URL
UrlDoc(url) ==
    Mapping("command_start_hook" :> [webhook_url |-> url, headers |-> <<StaticHeader>>])

\* invocations that differ in which of the two paths hold a file and in
\* whether the override variable is set
InitResolve ==
    \E atDefault \in {MissingFile, UrlDoc(URL), [kind |-> "unparseable"]},
       atCustom \in {MissingFile, UrlDoc(URL2), [kind |-> "notmapping"]},
       override \in {"", CustomPath}, token \in {Unset, <<"tok">>} :
        StartAt(override,
                (DEFAULT_CONIG_FILE_NAME :> atDefault) @@ (CustomPath :> atCustom),
                Environ(Unset, Unset, token), "run", {"u1"}, {"ok_data", "transport"}, TRUE)

\* a hook that sets every field, with a placeholder in its URL and in its
\* body template
FullHookDocs ==
    {[command_types |-> <<"run", "compile">>, webhook_url |-> "a/{X}/c",
      webhok_method |-> "PUT", webhook_request_data_template |-> "{X}",
      headers |-> hs, env_vars |-> ev] :
        hs \in HeaderChoices, ev \in EnvVarChoices}

\* invocations over a file that sets every field of one hook and leaves the
\* other hooks at their defaults or disables them
InitFrame ==
    \E h \in HookSet, d \in FullHookDocs, g \in HookSet, x \in {Unset, <<"xyz">>},
       cmdType \in {"run", "compile"} :
        Start(Mapping(IF g = h THEN h :> d ELSE (h :> d) @@ (g :> NoneValue)),
              "default", Environ(x, <<"QWE">>, <<"tok">>), cmdType, {"u1"}, {"ok_data"}, TRUE)

InitLoad == InitTemplates \/ InitTwoHooks \/ InitInvalid \/ InitResolve \/ InitFrame

SpecLoad == InitLoad /\ [][Next]_vars

\* what a file may say about the model hooks when units run on threads
ThreadDocs ==
    { AllHooksDoc,
      Mapping("model_start_hook" :> [webhook_url |-> URL]),
      Mapping("model_end_hook" :> [webhook_url |-> URL2]),
      Mapping(("model_start_hook" :> [webhook_url |-> URL, headers |-> <<StaticHeader>>])
              @@ ("model_end_hook" :> [webhook_url |-> URL2, webhok_method |-> "PUT"])) }

\* invocations whose units are executed concurrently
InitThreads ==
    \E doc \in ThreadDocs :
        Start(doc, "default", Environ(Unset, Unset, <<"tok">>), "run", Units,
              {"ok_data", "ok_empty", "transport"}, TRUE)

SpecThreads == InitThreads /\ [][NextThreads]_vars

\* the process environment changes after the load, while the invocation runs
SetEnv(n, value) ==
    /\ pc = "loaded"
    /\ result = "pending"
    /\ env' = IF value = Unset
              THEN [v \in DOMAIN env \ {n} |-> env[v]]
              ELSE [v \in DOMAIN env \cup {n} |-> IF v = n THEN value ELSE env[v]]
    /\ env' # env
    /\ UNCHANGED <<overridePath, fs, commandType, units, net, pc, config, loadResult,
                   notices, events, calls, store, escaped, buildOk, inflight, result>>

\* the invocation in a process whose environment changes under it
NextEnv ==
    \/ Load
    \/ CommandStart
    \/ \E u \in units : ModelStart(u)
    \/ \E u \in units : ModelEnd(u)
    \/ CommandEnd
    \/ \E n \in {"X", "DBT_WEBHOOK_AUTH_TOKEN"}, value \in {Unset, <<"xyz">>, <<"QWE">>} :
          SetEnv(n, value)

\* files whose headers take their values from the environment
EnvDocs ==
    { AllHooksDoc,
      Mapping([h \in HookSet |-> [webhook_url |-> URL]]),
      Mapping([h \in HookSet |->
                  [webhook_url |-> URL,
                   headers |-> <<Header("H1", <<"b", "{", "X", "}">>), StaticHeader>>,
                   env_vars |-> <<"X">>]]),
      Mapping(("command_start_hook" :>
                  [webhook_url |-> URL,
                   headers |-> <<Header("H1", <<"{", "{", "{", "X", "}", "}", "}">>)>>,
                   env_vars |-> <<"X", "DBT_WEBHOOK_AUTH_TOKEN">>])
              @@ ("model_end_hook" :> [webhook_url |-> URL2])) }

InitEnv ==
    \E doc \in EnvDocs, x \in {Unset, <<"xyz">>}, token \in {Unset, <<"tok">>} :
        Start(doc, "default", Environ(x, Unset, token), "run", {"u1"},
              {"ok_data", "transport"}, TRUE)

SpecEnv == InitEnv /\ [][NextEnv]_vars

----------------------------------------------------------------------------
(* Vocabulary of the properties *)

\* the document at the path the load resolves, MissingFile if none is there
ResolvedDoc ==
    LET path == GetConfigFile(overridePath, fs)
    IN  IF Exists(fs, path) THEN fs[path] ELSE MissingFile

\* the hooks as the document (or the defaults) gives them, before substitution
ParsedHooks ==
    IF ResolvedDoc.kind = "mapping" THEN dbtWebhookConfig(ResolvedDoc.data)
    ELSE dbtWebhookConfig(EmptyDoc)

HooksAreRead == ResolvedDoc.kind \in {"mapping", "missing"}

\* what the document says about a hook, EmptyDoc when it says nothing
HookDoc(hookName) ==
    IF ResolvedDoc.kind = "mapping" /\ hookName \in DOMAIN ResolvedDoc.data
    THEN ResolvedDoc.data[hookName]
    ELSE EmptyDoc

TextAtoms(t) == Range(t) \ {"{", "}"}

\* the template renders once every name it holds is supplied
WellFormed(t) == FormatFrom(t, 1, [m \in TextAtoms(t) |-> <<>>]).ok

\* the names a template needs: those whose absence from the substitution map
\* makes an otherwise renderable template fail
Placeholders(t) ==
    {n \in TextAtoms(t) :
        /\ WellFormed(t)
        /\ ~FormatFrom(t, 1, [m \in TextAtoms(t) \ {n} |-> <<>>]).ok}

Emitted(notice) == notice \in Range(notices)

CallsOf(eventType) == {i \in 1..Len(calls) : calls[i].event = eventType}

EventTypes == {"command_start", "command_end", "model_start", "model_end"}

AllDelivered == result # "pending"

KeyOf(call) == CorrelationKey(call.event, call.unit)

----------------------------------------------------------------------------
\* C1: whenever a header template of any hook references a placeholder name
\* that the hook's env_vars does not supply (whatever the env_vars list, the
\* empty one included), the load has emitted a HeaderValueRenderingError
\* naming that header and its template, there is no usable configuration and
\* no HTTP call is issued.
C1_UnsuppliedPlaceholderFailsLoad ==
    (pc = "loaded" /\ HooksAreRead) =>
        \A h \in HookSet :
            LET hook == ParsedHooks[h]
            IN  hook # NoneValue =>
                  \A i \in 1..Len(hook.headers) :
                      ~(Placeholders(hook.headers[i].value) \subseteq Range(hook.env_vars)) =>
                          /\ Emitted(error(HeaderValueRenderingError(
                                 hook.headers[i].name, hook.headers[i].value)))
                          /\ config = NoneValue
                          /\ calls = <<>>

----------------------------------------------------------------------------
\* C2: every failed call (transport exception, non-success status,
\* unparsable body), whatever the event type, has left an error notice that
\* carries its cause; no exception reaches the host; and the success the
\* host reports is the build's own.
C2_FailureIsReportedNotRaised ==
    /\ \A i \in 1..Len(calls) :
          ~ReplyOk(calls[i].reply) =>
              \E j \in 1..Len(notices) :
                  /\ notices[j].level = "error"
                  /\ "error calling webhook: " \in Range(notices[j].msg)
                  /\ Cause(calls[i].reply) \in Range(notices[j].msg)
    /\ ~escaped
    /\ result # "pending" => (result = "success" <=> buildOk)
    /\ \A e \in EventTypes, u \in units \cup {""} :
          \* the failed dispatch returned: its event counts as delivered
          (\E i \in 1..Len(calls) : calls[i].event = e /\ calls[i].unit = u)
              => Delivered(e, u)

\* every kind of failure has happened, on start-class and end-class events,
\* and the invocation has reported the build's success
C2_Witness ==
    /\ result = "success"
    /\ \A r \in {"transport", "status_500", "unparsable"} :
          \E i \in 1..Len(calls) : calls[i].reply = r
    /\ \E i \in 1..Len(calls) : ~IsStart(calls[i].event) /\ ~ReplyOk(calls[i].reply)
    /\ \E i \in 1..Len(calls) : IsStart(calls[i].event) /\ ~ReplyOk(calls[i].reply)

----------------------------------------------------------------------------
\* a start call with this key got a usable reply before call i
StartedBefore(i) ==
    \E j \in 1..(i - 1) :
        /\ IsStart(calls[j].event)
        /\ KeyOf(calls[j]) = KeyOf(calls[i])
        /\ ReplyOk(calls[j].reply)

\* C3 as stated: an end-class call is a PUT if and only if a correlation
\* record was stored under its key by an earlier start call.
C3_PutIffRecord ==
    \A i \in 1..Len(calls) :
        ~IsStart(calls[i].event) =>
            (calls[i].method = "PUT" <=> (KeyOf(calls[i]) \in DOMAIN store /\ StartedBefore(i)))

\* C3 amended: under a key there is a record exactly when an earlier start
\* call of that key succeeded; an end-class call with a record is a PUT to the
\* URL of that start call; one without a record uses the end hook's own URL
\* and configured method, which is POST when the file does not set it.
C3_PutWhenRecordElseConfigured ==
    \A i \in 1..Len(calls) :
        LET c == calls[i]
            hook == config[HookOf(c.event)]
        IN  ~IsStart(c.event) =>
              /\ KeyOf(c) \in DOMAIN store <=> StartedBefore(i)
              /\ KeyOf(c) \in DOMAIN store =>
                    /\ c.method = "PUT"
                    /\ \E j \in 1..(i - 1) :
                          /\ IsStart(calls[j].event)
                          /\ KeyOf(calls[j]) = KeyOf(c)
                          /\ ReplyOk(calls[j].reply)
                          /\ calls[j].url = c.url
              /\ KeyOf(c) \notin DOMAIN store =>
                    /\ c.method = hook.webhok_method
                    /\ c.url = hook.webhook_url
                    /\ "webhok_method" \notin DOMAIN HookDoc(HookOf(c.event))
                          => c.method = "POST"

\* both cases at both levels: correlated PUTs, and an uncorrelated end call
\* after a failed start call
C3_Witness ==
    /\ \E i \in CallsOf("command_end") : calls[i].method = "PUT"
    /\ \E i \in CallsOf("model_end") :
          calls[i].method = "PUT" /\ KeyOf(calls[i]) \in DOMAIN store
    /\ \E i \in CallsOf("model_end") :
          /\ calls[i].method = "POST"
          /\ \E j \in CallsOf("model_start") :
                calls[j].unit = calls[i].unit /\ ~ReplyOk(calls[j].reply)

----------------------------------------------------------------------------
\* the hook of an event type is absent, has no URL, or does not list the
\* invocation's command type
NotConfigured(eventType) ==
    \/ config = NoneValue
    \/ config[HookOf(eventType)] = NoneValue
    \/ config[HookOf(eventType)].webhook_url = ""
    \/ commandType \notin Range(config[HookOf(eventType)].command_types)

\* the file leaves the hook's command types (run, build) or its URL (empty)
\* at the default, and the default rules the hook out
RuledOutByDefault(eventType) ==
    LET doc == HookDoc(HookOf(eventType))
    IN  /\ HooksAreRead
        /\ doc # NoneValue
        /\ \/ "webhook_url" \notin DOMAIN doc
           \/ "command_types" \notin DOMAIN doc /\ commandType \notin {"run", "build"}

\* C4: for each of the four event types, when the hook configuration is
\* absent, its URL is empty or the command type is not among its
\* command_types (run and build unless the file says otherwise), no HTTP call
\* has been issued for the event type and no correlation record stored.
C4_DisabledHookIsNoOp ==
    pc = "loaded" =>
        \A e \in EventTypes :
            (NotConfigured(e) \/ RuledOutByDefault(e)) =>
                /\ CallsOf(e) = {}
                /\ \A u \in units \cup {""} :
                      IsStart(e) => CorrelationKey(e, u) \notin DOMAIN store

\* all events were delivered, one hook was ruled out by the command type
\* alone, another was not ruled out and issued its call
C4_Witness ==
    /\ AllDelivered
    /\ config # NoneValue
    /\ \E e \in EventTypes :
          /\ config[HookOf(e)] # NoneValue
          /\ config[HookOf(e)].webhook_url # ""
          /\ commandType \notin Range(config[HookOf(e)].command_types)
          /\ CallsOf(e) = {}
    /\ calls # <<>>

----------------------------------------------------------------------------
\* C5: for any hook whose env_vars names a variable absent from the
\* environment, the load has emitted an EnvVariableValueNotPassed warning for
\* that variable and, provided every placeholder the hook's headers use is
\* named in its env_vars, has returned a configuration in which the
\* placeholder is replaced by the empty string in every header of the hook.
C5_AbsentVariableWarnsAndLoads ==
    (pc = "loaded" /\ HooksAreRead) =>
        \A h \in HookSet :
            LET hook == ParsedHooks[h]
            IN  hook # NoneValue =>
                  \A v \in Range(hook.env_vars) :
                      v \notin DOMAIN env =>
                          /\ Emitted(warn(EnvVariableValueNotPassed(v)))
                          /\ (\A i \in 1..Len(hook.headers) :
                                 /\ WellFormed(hook.headers[i].value)
                                 /\ Placeholders(hook.headers[i].value)
                                       \subseteq Range(hook.env_vars))
                             => /\ loadResult = "config"
                                /\ \A i \in 1..Len(hook.headers) :
                                      config[h].headers[i].value =
                                          Format(hook.headers[i].value,
                                                 [n \in Range(hook.env_vars) |->
                                                     IF n = v THEN <<>>
                                                     ELSE IF n \in DOMAIN env THEN env[n]
                                                     ELSE <<>>]).out

----------------------------------------------------------------------------
\* C6: when the resolved file exists but is unparseable or not a mapping of
\* the expected shape, the load ends with no configuration, a ConfigReadError
\* error notice is emitted, no HTTP call is issued and nothing is stored, and
\* the invocation reports the build's success.
C6_InvalidFileGivesNoConfig ==
    (pc = "loaded" /\ ResolvedDoc.kind \in {"unparseable", "notmapping", "badshape"}) =>
        /\ config = NoneValue
        /\ loadResult # "config"
        /\ \E j \in 1..Len(notices) :
              /\ notices[j].level = "error"
              /\ notices[j].msg[1] = "[dbtWebhook]"
              /\ "Error getting dbt webhook config: " \in Range(notices[j].msg)
        /\ calls = <<>>
        /\ DOMAIN store = {}
        /\ ~escaped
        /\ result # "pending" => (result = "success" <=> buildOk)

\* an invocation over an unparseable file ran to its end and reported success
C6_Witness ==
    /\ ResolvedDoc.kind = "unparseable"
    /\ AllDelivered
    /\ Len(events) = 4
    /\ result = "success"
    /\ config = NoneValue

----------------------------------------------------------------------------
\* C7: when no file exists at the resolved path, the load has emitted the
\* PluginConfigNotFound warning and returned a configuration whose four hooks
\* are the built-in defaults (empty URL, run and build, POST, the default
\* body template and env_vars, the default headers rendered with the token
\* or with the empty string); no HTTP call is issued and the invocation
\* reports the build's success.
C7_MissingFileGivesDefaults ==
    (pc = "loaded" /\ ResolvedDoc.kind = "missing") =>
        /\ \E j \in 1..Len(notices) :
              /\ notices[j].level = "warn"
              /\ notices[j].msg[1] = "[dbtWebhook]"
              /\ notices[j].msg[3] = PluginConfigNotFound[1]
        /\ loadResult = "config"
        /\ config # NoneValue
        /\ \A h \in HookSet :
              /\ config[h].webhook_url = ""
              /\ config[h].command_types = <<"run", "build">>
              /\ config[h].webhok_method = "POST"
              /\ config[h].webhook_request_data_template = "{{ data | tojson }}"
              /\ config[h].env_vars = <<"DBT_WEBHOOK_AUTH_TOKEN">>
              /\ config[h].headers =
                    << [name |-> "Authorization",
                        value |-> <<"bearer ">> \o
                                  (IF "DBT_WEBHOOK_AUTH_TOKEN" \in DOMAIN env
                                   THEN env["DBT_WEBHOOK_AUTH_TOKEN"] ELSE <<>>)],
                       [name |-> "Content-Type", value |-> <<"application/json">>] >>
        /\ calls = <<>>
        /\ DOMAIN store = {}
        /\ result # "pending" => (result = "success" <=> buildOk)

\* an invocation without a file and without the token ran to its end
C7_Witness ==
    /\ ResolvedDoc.kind = "missing"
    /\ "DBT_WEBHOOK_AUTH_TOKEN" \notin DOMAIN env
    /\ overridePath # ""
    /\ AllDelivered
    /\ Len(events) = 4
    /\ result = "success"

----------------------------------------------------------------------------
\* the keys the configuration file documents for a hook
DocumentedKeys ==
    {"command_types", "node_types", "webhook_url", "webhook_method",
     "webhook_request_data_template", "headers", "env_vars"}

\* C8: after a load that returns a configuration, every documented key the
\* file gives under a hook is the value of the hook's field (headers: the
\* same header names; webhook_method: the method of the hook's initiating
\* call) and every omitted key leaves the default.
C8_FileKeysOverrideFields ==
    (pc = "loaded" /\ loadResult = "config" /\ ResolvedDoc.kind = "mapping") =>
        \A h \in HookSet :
            LET doc == HookDoc(h)
                hook == config[h]
                names(hs) == [i \in 1..Len(hs) |-> hs[i].name]
            IN  (doc # NoneValue /\ DOMAIN doc \subseteq DocumentedKeys) =>
                  /\ hook.command_types = Get(doc, "command_types", <<"run", "build">>)
                  /\ hook.webhook_url = Get(doc, "webhook_url", "")
                  /\ hook.webhok_method = Get(doc, "webhook_method", "POST")
                  /\ hook.webhook_request_data_template =
                        Get(doc, "webhook_request_data_template", "{{ data | tojson }}")
                  /\ hook.env_vars = Get(doc, "env_vars", <<"DBT_WEBHOOK_AUTH_TOKEN">>)
                  /\ names(hook.headers) = names(Get(doc, "headers", Default_headers))
                  /\ \A i \in CallsOf("command_start") \cup CallsOf("model_start") :
                        HookOf(calls[i].event) = h =>
                            calls[i].method = Get(doc, "webhook_method", "POST")

----------------------------------------------------------------------------
\* the environment value of a name, the empty string when it is unset
EnvValue(n) == IF n \in DOMAIN env THEN env[n] ELSE <<>>

\* a template with every {NAME} replaced by the value of NAME and every
\* other character kept
RECURSIVE ReplacedFrom(_, _)
ReplacedFrom(t, i) ==
    IF i > Len(t) THEN <<>>
    ELSE IF t[i] = "{" /\ i + 2 <= Len(t) /\ t[i + 2] = "}" /\ t[i + 1] \notin {"{", "}"}
    THEN EnvValue(t[i + 1]) \o ReplacedFrom(t, i + 3)
    ELSE <<t[i]>> \o ReplacedFrom(t, i + 1)

\* the same, with a doubled brace read first and reduced to a single brace
RECURSIVE UnescapedFrom(_, _)
UnescapedFrom(t, i) ==
    IF i > Len(t) THEN <<>>
    ELSE IF t[i] \in {"{", "}"} /\ i + 1 <= Len(t) /\ t[i + 1] = t[i]
    THEN <<t[i]>> \o UnescapedFrom(t, i + 2)
    ELSE IF t[i] = "{" /\ i + 2 <= Len(t) /\ t[i + 2] = "}"
    THEN EnvValue(t[i + 1]) \o UnescapedFrom(t, i + 3)
    ELSE <<t[i]>> \o UnescapedFrom(t, i + 1)

\* the hooks whose headers the load substitutes
Substituted(h) ==
    /\ ParsedHooks[h] # NoneValue
    /\ ParsedHooks[h].env_vars # <<>>
    /\ ParsedHooks[h].headers # <<>>

\* C10 as stated: after a successful load each header value of a hook with
\* env_vars and headers is its template with every {NAME} replaced by the
\* environment value of NAME (empty when unset) and every other character
\* unchanged, the header names are unchanged, and every call of the hook is
\* sent with exactly these headers.
C10_HeadersArePlaceholdersReplaced ==
    (pc = "loaded" /\ loadResult = "config") =>
        \A h \in HookSet :
            Substituted(h) =>
                /\ Len(config[h].headers) = Len(ParsedHooks[h].headers)
                /\ \A i \in 1..Len(config[h].headers) :
                      /\ config[h].headers[i].name = ParsedHooks[h].headers[i].name
                      /\ config[h].headers[i].value =
                            ReplacedFrom(ParsedHooks[h].headers[i].value, 1)
                /\ \A k \in 1..Len(calls) :
                      HookOf(calls[k].event) = h => calls[k].headers = config[h].headers

\* C10 amended: as stated, except that a doubled brace of the template is
\* reduced to a single brace, and that the headers are those of the hook's
\* calls that are not correlated PUTs (a correlated PUT is sent with the
\* headers of the start call that stored the record).
C10_HeadersAreFormatted ==
    (pc = "loaded" /\ loadResult = "config") =>
        \A h \in HookSet :
            Substituted(h) =>
                /\ Len(config[h].headers) = Len(ParsedHooks[h].headers)
                /\ \A i \in 1..Len(config[h].headers) :
                      /\ config[h].headers[i].name = ParsedHooks[h].headers[i].name
                      /\ config[h].headers[i].value =
                            UnescapedFrom(ParsedHooks[h].headers[i].value, 1)
                /\ \A k \in 1..Len(calls) :
                      (HookOf(calls[k].event) = h
                         /\ (IsStart(calls[k].event) \/ KeyOf(calls[k]) \notin DOMAIN store))
                      => calls[k].headers = config[h].headers

\* a template with an upper-case letter, doubled braces and the placeholder
\* of an unset variable was rendered and sent
C10_Witness ==
    /\ pc = "loaded"
    /\ loadResult = "config"
    /\ "X" \notin DOMAIN env
    /\ \E h \in HookSet :
          /\ Substituted(h)
          /\ ParsedHooks[h].headers[1].value = <<"B", "{", "{", "{", "X", "}", "}", "}">>
          /\ config[h].headers[1].value = <<"B", "{", "}">>
          /\ \E k \in 1..Len(calls) :
                HookOf(calls[k].event) = h /\ calls[k].headers = config[h].headers

----------------------------------------------------------------------------
\* the calls issued for one lifecycle event
CallsFor(eventType, unit) ==
    {i \in 1..Len(calls) : calls[i].event = eventType /\ calls[i].unit = unit}

\* the lifecycle events fired so far whose hook is configured and applies
ApplicableEvents == {j \in 1..Len(events) : ~NotConfigured(events[j].type)}

\* C11: each lifecycle event has caused at most one HTTP call, whether the
\* call succeeded or failed: no event has more calls than times it was fired,
\* a failed call is the only call of its event, and the number of calls never
\* exceeds the number of events fired for hooks that are configured and apply.
C11_AtMostOneCallPerEvent ==
    /\ \A e \in EventTypes, u \in units \cup {""} :
          /\ Cardinality(CallsFor(e, u)) <= 1
          /\ Cardinality(CallsFor(e, u)) <=
                Cardinality({j \in 1..Len(events) : events[j] = [type |-> e, unit |-> u]})
    /\ \A i \in 1..Len(calls) :
          ~ReplyOk(calls[i].reply) => CallsFor(calls[i].event, calls[i].unit) = {i}
    /\ Len(calls) <= Cardinality(ApplicableEvents)

\* the whole invocation was delivered with every hook configured, start and
\* end calls failed, and every event still has exactly one call
C11_Witness ==
    /\ AllDelivered
    /\ Len(events) = 6
    /\ Len(calls) = 6
    /\ \E i \in CallsOf("model_start") : calls[i].reply = "transport"
    /\ \E i \in CallsOf("command_end") : calls[i].reply = "status_500"

----------------------------------------------------------------------------
\* the record the i-th call stored, if it is a successful start call
RecordOf(i) == Record(calls[i], i)

Stored(i) == IsStart(calls[i].event) /\ ReplyOk(calls[i].reply)

\* C12: with the model-start and model-end dispatches of different units
\* interleaved, each model-end call has read exactly the record that the
\* start call of its own (invocation id, unit) key stored, or none when that
\* start call stored none; and the store holds, under each key, the record
\* its successful start call stored: none is lost, removed or overwritten.
C12_EachEndReadsItsOwnRecord ==
    /\ \A i \in CallsOf("model_end") :
          LET own == {j \in 1..(i - 1) :
                         /\ calls[j].event = "model_start"
                         /\ calls[j].unit = calls[i].unit
                         /\ ReplyOk(calls[j].reply)}
          IN  /\ own = {} => calls[i].record = NoneValue
              /\ own # {} =>
                    \E j \in own :
                        /\ calls[i].record = [data |-> [body |-> calls[j].reply,
                                                        id |-> IF calls[j].reply = "ok_data"
                                                               THEN j ELSE 0],
                                              url |-> calls[j].url,
                                              headers |-> calls[j].headers]
                        /\ calls[i].method = "PUT"
                        /\ calls[i].url = calls[j].url
    /\ \A j \in 1..Len(calls) :
          Stored(j) => /\ KeyOf(calls[j]) \in DOMAIN store
                       /\ store[KeyOf(calls[j])] = RecordOf(j)
    /\ \A k \in DOMAIN store : \E j \in 1..Len(calls) : Stored(j) /\ KeyOf(calls[j]) = k

\* one unit's model-end call was a PUT built from its own record while the
\* other unit's model-start call, issued before that record existed, is
\* still waiting for its reply
C12_Witness ==
    \E u \in units, v \in units :
        /\ u # v
        /\ inflight[u] # NoneValue
        /\ inflight[u].call.event = "model_start"
        /\ CorrelationKey("model_start", v) \notin DOMAIN inflight[u].snapshot
        /\ \E i \in CallsOf("model_end") :
              /\ calls[i].unit = v
              /\ calls[i].record # NoneValue
              /\ calls[i].record.data.id = i - 1

----------------------------------------------------------------------------
\* the notices by which a load reports which configuration it resolved
LoadOutcomes(ns) ==
    {j \in 1..Len(ns) :
        /\ Len(ns[j].msg) >= 3
        /\ ns[j].msg[3] \in {"read config from '", PluginConfigNotFound[1]}}

\* C13, step by step: once loaded, the configuration is not loaded again and
\* never changes; what the load stores as a header value is the template
\* rendered with the environment of that moment; and the headers of every
\* call issued are those of the stored configuration (the headers of its
\* start call for a correlated update), whatever the environment is by then.
C13_Step ==
    /\ pc = "loaded" => (pc' = "loaded" /\ config' = config /\ loadResult' = loadResult)
    /\ Cardinality(LoadOutcomes(notices')) <= 1
    /\ (pc = "init" /\ loadResult' = "config") =>
          \A h \in HookSet :
              ParsedHooks[h] # NoneValue =>
                  /\ Len(config'[h].headers) = Len(ParsedHooks[h].headers)
                  /\ \A i \in 1..Len(ParsedHooks[h].headers) :
                        config'[h].headers[i].value =
                            IF Substituted(h)
                            THEN UnescapedFrom(ParsedHooks[h].headers[i].value, 1)
                            ELSE ParsedHooks[h].headers[i].value
    /\ Len(calls') > Len(calls) =>
          LET c == calls'[Len(calls')]
          IN  c.headers = IF c.record # NoneValue THEN c.record.headers
                          ELSE config[HookOf(c.event)].headers

C13_LoadedOnceHeadersFixed == [][C13_Step]_vars

\* the invocation ended with every call carrying the value X had at the load,
\* although X was changed afterwards, before the last dispatch
C13_Witness ==
    /\ result # "pending"
    /\ Len(calls) = 4
    /\ "X" \in DOMAIN env /\ env["X"] = <<"QWE">>
    /\ \A k \in 1..Len(calls) : calls[k].headers[1].value = <<"b", "xyz">>
    /\ config["command_start_hook"].headers[1].value = <<"b", "xyz">>

----------------------------------------------------------------------------
\* the notices of the load: all but the plugin's initialization notice
LoadNotices == SubSeq(notices, 2, Len(notices))

FoundNotice(path) ==
    [level |-> "info", msg |-> <<"[dbtWebhook]", ": ", "read config from '", path, "' file">>]

NotFoundNotice ==
    [level |-> "warn", msg |-> <<"[dbtWebhook]", ": ", PluginConfigNotFound[1]>>]

HasFile(path) == fs[path].kind # "missing"

\* the load read the file at the path: its first notice names the path, no
\* other outcome is reported, and a configuration it returns has the URL the
\* file at that path gives the command-start hook
ReadFrom(path) ==
    /\ LoadNotices # <<>>
    /\ LoadNotices[1] = FoundNotice(path)
    /\ LoadOutcomes(notices) = {2}
    /\ (loadResult = "config" /\ fs[path].kind = "mapping"
          /\ "command_start_hook" \in DOMAIN fs[path].data
          /\ fs[path].data["command_start_hook"] # NoneValue
          /\ "webhook_url" \in DOMAIN fs[path].data["command_start_hook"])
       => config["command_start_hook"].webhook_url =
              fs[path].data["command_start_hook"].webhook_url

\* the load found no file: its first notice is the warning, no other outcome
\* is reported and the four hooks are the built-in defaults
DefaultsUsed ==
    /\ LoadNotices # <<>>
    /\ LoadNotices[1] = NotFoundNotice
    /\ LoadOutcomes(notices) = {2}
    /\ loadResult = "config"
    /\ \A h \in HookSet :
          /\ config[h].webhook_url = ""
          /\ config[h].command_types = <<"run", "build">>
          /\ config[h].webhok_method = "POST"
          /\ config[h].env_vars = <<"DBT_WEBHOOK_AUTH_TOKEN">>

\* C14 as stated: if the override variable names a path, that path is read
\* and the config-found notice names it; otherwise the default file is read
\* when it exists; otherwise the config-not-found warning is emitted and the
\* defaults are used; the outcome is reported once, before any other load
\* diagnostic.
C14_OverrideIsRead ==
    pc = "loaded" =>
        IF overridePath # "" THEN ReadFrom(overridePath)
        ELSE IF HasFile(DEFAULT_CONIG_FILE_NAME) THEN ReadFrom(DEFAULT_CONIG_FILE_NAME)
        ELSE DefaultsUsed

\* C14 amended: if the override variable names a path, that path is the one
\* resolved: it is read (config-found notice names it) when a file exists
\* there, and otherwise the config-not-found warning is emitted and the
\* defaults are used, whether or not the default file exists; without an
\* override the default file is read when it exists, and otherwise the
\* warning is emitted and the defaults are used.  The outcome is reported
\* once, before any other load diagnostic.
C14_ResolutionOrder ==
    pc = "loaded" =>
        IF overridePath # ""
        THEN IF HasFile(overridePath) THEN ReadFrom(overridePath) ELSE DefaultsUsed
        ELSE IF HasFile(DEFAULT_CONIG_FILE_NAME) THEN ReadFrom(DEFAULT_CONIG_FILE_NAME)
        ELSE DefaultsUsed

\* both files exist, the override names the custom one, and the loaded
\* configuration has the custom file's URL
C14_Witness ==
    /\ pc = "loaded"
    /\ overridePath = CustomPath
    /\ HasFile(DEFAULT_CONIG_FILE_NAME) /\ fs[DEFAULT_CONIG_FILE_NAME].kind = "mapping"
    /\ HasFile(CustomPath)
    /\ loadResult = "config"
    /\ config["command_start_hook"].webhook_url = "d/e/f"
    /\ \E i \in 1..Len(calls) : calls[i].url = "d/e/f"

----------------------------------------------------------------------------
\* C15: every notice emitted, at every level and in every reachable state of
\* load and dispatch, has a message that begins with the tag '[dbtWebhook]'.
C15_EveryNoticeIsTagged ==
    \A j \in 1..Len(notices) :
        /\ notices[j].level \in {"debug", "info", "warn", "error"}
        /\ Len(notices[j].msg) >= 2
        /\ notices[j].msg[1] = "[dbtWebhook]"
        /\ notices[j].msg[2] = ": "

\* notices of all four levels were emitted, by the load and by a failed call
C15_Witness ==
    /\ \A l \in {"debug", "info", "warn", "error"} :
          \E j \in 1..Len(notices) : notices[j].level = l
    /\ \E j \in 1..Len(notices) : "error calling webhook: " \in Range(notices[j].msg)
    /\ \E j \in 1..Len(notices) :
          "config expects environment variable " \in Range(notices[j].msg)

----------------------------------------------------------------------------
\* the hooks that list the variable in their env_vars
HooksListing(v) ==
    {h \in HookSet : ParsedHooks[h] # NoneValue /\ v \in Range(ParsedHooks[h].env_vars)}

ListedVariables ==
    UNION {Range(ParsedHooks[h].env_vars) : h \in {g \in HookSet : ParsedHooks[g] # NoneValue}}

\* the i-th header template of a hook, rendered with the hook's variables
RenderedHeader(h, i) ==
    Format(ParsedHooks[h].headers[i].value,
           [n \in Range(ParsedHooks[h].env_vars) |-> EnvValue(n)])

\* C16: after a load, for every hook and every variable of its env_vars that
\* the environment lacks, a warning was emitted for that hook and variable
\* (as many warnings for a variable as hooks list it), and every header of
\* every hook was rendered: a failure has its error notice and, when a
\* configuration is returned, each header holds its rendered value; whether
\* or not an earlier hook failed to render.
C16_HooksProcessedIndependently ==
    (pc = "loaded" /\ HooksAreRead) =>
        /\ \A v \in ListedVariables :
              v \notin DOMAIN env =>
                  Cardinality({j \in 1..Len(notices) :
                                  notices[j] = warn(EnvVariableValueNotPassed(v))})
                      >= Cardinality(HooksListing(v))
        /\ \A h \in HookSet :
              ParsedHooks[h] # NoneValue =>
                  \A i \in 1..Len(ParsedHooks[h].headers) :
                      IF RenderedHeader(h, i).ok
                      THEN loadResult = "config" =>
                               config[h].headers[i].value = RenderedHeader(h, i).out
                      ELSE Emitted(error(HeaderValueRenderingError(
                               ParsedHooks[h].headers[i].name,
                               ParsedHooks[h].headers[i].value)))

----------------------------------------------------------------------------
\* the load tried to render a header and the rendering failed
RenderFailed ==
    \E j \in 1..Len(notices) :
        notices[j].level = "error" /\ "error rendering '" \in Range(notices[j].msg)

\* C17: when a header template has failed to render, from_yaml has finished
\* by returning None and not by raising, whatever the position of the header
\* in its hook's headers and whichever hook it belongs to.
C17_RenderFailureReturnsNone ==
    (pc = "loaded" /\ RenderFailed) =>
        /\ loadResult = "none"
        /\ \A j \in 1..Len(notices) :
              "Error getting dbt webhook config: " \notin Range(notices[j].msg)

----------------------------------------------------------------------------
HeaderNames(hs) == {hs[i].name : i \in 1..Len(hs)}

\* C18: after a load that returns a configuration, every hook that the file
\* does not disable has the command_types, URL, method, body template,
\* env_vars and header names that were parsed from the file or are the
\* defaults, a disabled hook stays disabled, and a placeholder in the URL or
\* in the body template is still there.
C18_OnlyHeaderValuesChange ==
    (pc = "loaded" /\ loadResult = "config") =>
        \A h \in HookSet :
            LET doc == HookDoc(h)
                hook == config[h]
            IN  IF doc = NoneValue THEN hook = NoneValue
                ELSE /\ hook # NoneValue
                     /\ hook.command_types = Get(doc, "command_types", <<"run", "build">>)
                     /\ hook.webhook_url = Get(doc, "webhook_url", "")
                     /\ hook.webhok_method = Get(doc, "webhok_method", "POST")
                     /\ hook.webhook_request_data_template =
                           Get(doc, "webhook_request_data_template", "{{ data | tojson }}")
                     /\ hook.env_vars = Get(doc, "env_vars", <<"DBT_WEBHOOK_AUTH_TOKEN">>)
                     /\ HeaderNames(hook.headers) =
                           IF "headers" \in DOMAIN doc THEN HeaderNames(doc["headers"])
                           ELSE {"Authorization", "Content-Type"}
                     /\ Len(hook.headers) = Len(ParsedHooks[h].headers)
                     /\ h \in {"model_start_hook", "model_end_hook"} =>
                           hook.node_types = Get(doc, "node_types", <<"model">>)

\* a hook whose URL and body template hold the placeholder of a variable that
\* is set and listed was loaded, its header was substituted, its URL and body
\* template were not, and its call went to the URL as written
C18_Witness ==
    /\ pc = "loaded"
    /\ loadResult = "config"
    /\ "X" \in DOMAIN env /\ env["X"] = <<"xyz">>
    /\ \E h \in HookSet :
          /\ HookDoc(h) # NoneValue
          /\ "webhook_url" \in DOMAIN HookDoc(h)
          /\ HookDoc(h).headers = <<Header("H1", <<"{", "X", "}">>)>>
          /\ config[h].headers = <<Header("H1", <<"xyz">>)>>
          /\ config[h].env_vars = <<"X">>
          /\ config[h].webhook_url = "a/{X}/c"
          /\ config[h].webhook_request_data_template = "{X}"
          /\ \E k \in 1..Len(calls) : calls[k].url = "a/{X}/c" /\ calls[k].method = "PUT"
    /\ \E g \in HookSet : config[g] = NoneValue

====
